---- MODULE Spec2Model ----
(***************************************************************************)
(* Student API with an in-memory record store and a streamed summary call. *)
(* Model of src/main.go (and of its second copy src/unnamed/part_000,      *)
(* whose getStudentSummary does not check the upstream status).            *)
(*                                                                         *)
(* Every request is served by its own goroutine; a goroutine is modelled   *)
(* as a process p with a program counter pc[p] that walks through the      *)
(* handler's statements.  The store (students, mutex) is shared.           *)
(***************************************************************************)
EXTENDS Integers, Sequences, FiniteSets, TLC

\* ------------------------------------------------------------------ bounds
NumProcs == 2
MaxOps == 4
MaxLines == 3

Procs == 1 .. NumProcs

\* --------------------------------------------------------------- constants
StatusOK == 200
StatusCreated == 201
StatusNoContent == 204
StatusBadRequest == 400
StatusNotFound == 404
StatusInternalServerError == 500

\* mutex holder value of an unlocked sync.Mutex
Unlocked == 0

\* the two copies of the server in the repository
Main == "main.go"
Part000 == "part_000"

\* ------------------------------------------------------------------ inputs
PathSegments == {"1", "2", "abc"}
UpstreamStatuses == {200, 503}

LineHello == "{\"response\":\"Hello \",\"done\":false}"
LineWorld == "{\"response\":\"world.\",\"done\":true}"
LineNotJson == "not-json"
LineEmpty == ""
Lines == {LineHello, LineWorld, LineNotJson, LineEmpty}

\* ---------------------------------------------------------------- Student
Student(i, n, a, e) == [ID |-> i, Name |-> n, Age |-> a, Email |-> e]

ZeroStudent == Student(0, "", 0, "")

\* The decoded request bodies used as inputs: valid students whose payload id is
\* zero, foreign or negative, and one student for each way of being invalid.
Students ==
    { Student(0, "ann", 20, "a@x.io"),
      Student(2, "bob", 20, "b@x.io"),
      Student(-1, "ann", 20, "a@x.io"),
      Student(0, "", 20, "a@x.io"),
      Student(0, "ann", 20, ""),
      Student(0, "ann", 0, "a@x.io"),
      Student(1, "bob", -1, "b@x.io") }

\* A request body: either undecodable (err) or the JSON of a Student.
Bodies == {[err |-> TRUE, s |-> ZeroStudent]} \cup [err : {FALSE}, s : Students]

\* ------------------------------------------------------------ pure helpers
\* strconv.Atoi on the path segments used as inputs
AtoiOk(seg) == seg \in {"1", "2"}

Atoi(seg) ==
    CASE seg = "1" -> 1
      [] seg = "2" -> 2
      [] OTHER -> 0

Digit(d) ==
    CASE d = 0 -> "0" [] d = 1 -> "1" [] d = 2 -> "2" [] d = 3 -> "3"
      [] d = 4 -> "4" [] d = 5 -> "5" [] d = 6 -> "6" [] d = 7 -> "7"
      [] d = 8 -> "8" [] d = 9 -> "9"

RECURSIVE Itoa(_)
\* fmt's %d
Itoa(n) ==
    IF n < 0 THEN "-" \o Itoa(0 - n)
    ELSE IF n < 10 THEN Digit(n)
    ELSE Itoa(n \div 10) \o Digit(n % 10)

\* faulty validation that lets an empty name through
InvalidNameLax(err, s) == err \/ s.Email = "" \/ s.Age <= 0

\* faulty validation that lets age 0 through
InvalidAgeLax(err, s) == err \/ s.Name = "" \/ s.Email = "" \/ s.Age < 0

\* the validation of createStudent / updateStudent: TRUE when the request is rejected
InvalidStudentData(err, s) == err \/ s.Name = "" \/ s.Email = "" \/ s.Age <= 0

\* id policy that never hands out a key again: one more than the largest key
NextIDFresh(tbl) ==
    IF DOMAIN tbl = {} THEN 1
    ELSE (CHOOSE m \in DOMAIN tbl : \A k \in DOMAIN tbl : k <= m) + 1

\* faulty id policy that counts from zero
NextIDFromZero(tbl) == Cardinality(DOMAIN tbl)

\* student.ID = len(students) + 1
NextID(tbl) == Cardinality(DOMAIN tbl) + 1

\* faulty map assignment that keeps the entry a key already has
PutKeepOld(tbl, k, s) == tbl @@ (k :> s)

\* students[k] = s
Put(tbl, k, s) == (k :> s) @@ tbl

\* faulty delete that removes nothing
RemoveNothing(tbl, k) == tbl

\* delete(students, k)
Remove(tbl, k) == [j \in DOMAIN tbl \ {k} |-> tbl[j]]

\* faulty existence test of a write handler that finds every key
ExistsAlways(tbl, k) == TRUE

\* _, exists := students[k]
Exists(tbl, k) == k \in DOMAIN tbl

\* faulty update that keeps the id of the payload
ForceIDKeep(s, i) == s

\* updated.ID = id
ForceID(s, i) == [s EXCEPT !.ID = i]

\* faulty mutex that never blocks
LockedNever(m) == FALSE

\* whether mutex.Lock() has to wait
Locked(m) == m # Unlocked

\* faulty decoder that accepts every line
UnmarshalOkAlways(line) == TRUE

\* json.Unmarshal of one scanned line into struct{Response string; Done bool}
UnmarshalOk(line) == line \in {LineHello, LineWorld}

ChunkResponse(line) ==
    CASE line = LineHello -> "Hello "
      [] line = LineWorld -> "world."
      [] OTHER -> ""

ChunkDone(line) == line = LineWorld

\* the prompt of getStudentSummary
Prompt(v, s) ==
    IF v = Main
    THEN "Summarize this student profile: Name: " \o s.Name \o ", Age: "
         \o Itoa(s.Age) \o ", Email: " \o s.Email
    ELSE "Provide a concise summary of the student profile:\nName: " \o s.Name
         \o "\nAge: " \o Itoa(s.Age) \o "\nEmail: " \o s.Email \o "\n"

\* the message of the 400 of createStudent: main.go has one test and one message
\* for a body that does not decode and for an invalid student, part_000 tests
\* the decode error first and answers it with a message of its own
InvalidBodyMessage(v, err) ==
    IF v = Part000 /\ err THEN "Invalid input" ELSE "Invalid student data"

\* whether the copy of the server tests resp.StatusCode
ChecksStatus(v) == v = Main

\* --------------------------------------------------------------- responses
Response(st, m, s, l, sum) ==
    [status |-> st, msg |-> m, student |-> s, list |-> l, summary |-> sum]

NoResponse == Response(0, "", ZeroStudent, {}, "")

HttpError(m, st) == Response(st, m, ZeroStudent, {}, "")

\* ------------------------------------------------------------------- state
VARIABLES
    students,      \* the map[int]Student
    mutex,         \* holder of the sync.Mutex, Unlocked when free
    pc,            \* pc[p]: position of request p in its handler
    id,            \* id[p]: the handler's local id
    student,       \* student[p]: the handler's local student / updated
    exists,        \* exists[p]: the handler's local exists
    prompt,        \* prompt[p]: local prompt of getStudentSummary
    upStatus,      \* upStatus[p]: resp.StatusCode of the upstream call
    consumed,      \* consumed[p]: the lines scanner.Text() returned so far
    fullResponse,  \* fullResponse[p]: the strings.Builder
    scanErr,       \* scanErr[p]: scanner.Err() != nil
    resp,          \* resp[p]: what was written to the http.ResponseWriter
    started        \* number of requests begun

vars == <<students, mutex, pc, id, student, exists, prompt,
          upStatus, consumed, fullResponse, scanErr, resp, started>>

localVars == <<id, student, exists>>
summaryVars == <<prompt, upStatus, consumed, fullResponse, scanErr>>

Init ==
    /\ students = << >>
    /\ mutex = Unlocked
    /\ pc = [p \in Procs |-> "idle"]
    /\ id = [p \in Procs |-> 0]
    /\ student = [p \in Procs |-> ZeroStudent]
    /\ exists = [p \in Procs |-> FALSE]
    /\ prompt = [p \in Procs |-> ""]
    /\ upStatus = [p \in Procs |-> 0]
    /\ consumed = [p \in Procs |-> << >>]
    /\ fullResponse = [p \in Procs |-> ""]
    /\ scanErr = [p \in Procs |-> FALSE]
    /\ resp = [p \in Procs |-> NoResponse]
    /\ started = 0

\* ------------------------------------------------------------ common steps
\* the router starts a handler in a fresh goroutine p
Accept(p) ==
    /\ pc[p] = "idle"
    /\ started < MaxOps
    /\ started' = started + 1

\* what is left of goroutine p once its handler has returned: its locals are gone
Returned(p) ==
    /\ pc' = [pc EXCEPT ![p] = "idle"]
    /\ id' = [id EXCEPT ![p] = 0]
    /\ student' = [student EXCEPT ![p] = ZeroStudent]
    /\ exists' = [exists EXCEPT ![p] = FALSE]
    /\ prompt' = [prompt EXCEPT ![p] = ""]
    /\ upStatus' = [upStatus EXCEPT ![p] = 0]
    /\ consumed' = [consumed EXCEPT ![p] = << >>]
    /\ fullResponse' = [fullResponse EXCEPT ![p] = ""]
    /\ scanErr' = [scanErr EXCEPT ![p] = FALSE]
    /\ resp' = [resp EXCEPT ![p] = NoResponse]

\* a handler that holds no lock returns after it has written its response
Return(p) ==
    /\ pc[p] = "done"
    /\ Returned(p)
    /\ UNCHANGED <<students, mutex, started>>

\* strconv.Atoi(params["id"]) with its error return, at the head of a handler
ParseId(p, seg, next) ==
    /\ Accept(p)
    /\ IF AtoiOk(seg)
       THEN /\ id' = [id EXCEPT ![p] = Atoi(seg)]
            /\ pc' = [pc EXCEPT ![p] = next]
            /\ resp' = resp
       ELSE /\ id' = id
            /\ pc' = [pc EXCEPT ![p] = "done"]
            /\ resp' = [resp EXCEPT ![p] =
                           HttpError("Invalid student ID", StatusBadRequest)]
    /\ UNCHANGED <<students, mutex, student, exists>>
    /\ UNCHANGED summaryVars

\* mutex.Lock()
Lock(p, at, next) ==
    /\ pc[p] = at
    /\ ~Locked(mutex)
    /\ mutex' = p
    /\ pc' = [pc EXCEPT ![p] = next]
    /\ UNCHANGED <<students, resp, started>>
    /\ UNCHANGED localVars
    /\ UNCHANGED summaryVars

\* faulty handler that returns without releasing the mutex
UnlockForgotten(p, at) ==
    /\ pc[p] = at
    /\ Returned(p)
    /\ UNCHANGED <<students, mutex, started>>

\* the handler returns, which runs the deferred mutex.Unlock()
Unlock(p, at) ==
    /\ pc[p] = at
    /\ mutex' = Unlocked
    /\ Returned(p)
    /\ UNCHANGED <<students, started>>

\* student, exists := students[id]
ReadEntry(p, at, next) ==
    /\ pc[p] = at
    /\ exists' = [exists EXCEPT ![p] = id[p] \in DOMAIN students]
    /\ student' = [student EXCEPT ![p] =
                      IF id[p] \in DOMAIN students THEN students[id[p]]
                      ELSE ZeroStudent]
    /\ pc' = [pc EXCEPT ![p] = next]
    /\ UNCHANGED <<students, mutex, id, resp, started>>
    /\ UNCHANGED summaryVars

\* ------------------------------------------------------------ createStudent
\* json Decode of the body into student and the validation, for a body drawn from B
CreateDecodeOf(p, v, B) ==
    /\ Accept(p)
    /\ \E b \in B :
         /\ student' = [student EXCEPT ![p] = b.s]
         /\ IF InvalidStudentData(b.err, b.s)
            THEN /\ pc' = [pc EXCEPT ![p] = "done"]
                 /\ resp' = [resp EXCEPT ![p] =
                                HttpError(InvalidBodyMessage(v, b.err),
                                          StatusBadRequest)]
            ELSE /\ pc' = [pc EXCEPT ![p] = "c_lock"]
                 /\ resp' = resp
    /\ UNCHANGED <<students, mutex, id, exists>>
    /\ UNCHANGED summaryVars

\* createStudent of main.go
CreateDecodeFrom(p, B) == CreateDecodeOf(p, Main, B)

CreateDecode(p) == CreateDecodeFrom(p, Bodies)

CreateLock(p) == Lock(p, "c_lock", "c_assign")

CreateAssign(p) ==
    /\ pc[p] = "c_assign"
    /\ student' = [student EXCEPT ![p].ID = NextID(students)]
    /\ pc' = [pc EXCEPT ![p] = "c_insert"]
    /\ UNCHANGED <<students, mutex, id, exists, resp, started>>
    /\ UNCHANGED summaryVars

CreateInsert(p) ==
    /\ pc[p] = "c_insert"
    /\ students' = Put(students, student[p].ID, student[p])
    /\ resp' = [resp EXCEPT ![p] =
                   Response(StatusCreated, "", student[p], {}, "")]
    /\ pc' = [pc EXCEPT ![p] = "c_unlock"]
    /\ UNCHANGED <<mutex, started>>
    /\ UNCHANGED localVars
    /\ UNCHANGED summaryVars

CreateUnlock(p) == Unlock(p, "c_unlock")

\* -------------------------------------------------------------- getStudents
ListStart(p) ==
    /\ Accept(p)
    /\ pc' = [pc EXCEPT ![p] = "l_lock"]
    /\ UNCHANGED <<students, mutex, resp>>
    /\ UNCHANGED localVars
    /\ UNCHANGED summaryVars

ListLock(p) == Lock(p, "l_lock", "l_read")

ListRead(p) ==
    /\ pc[p] = "l_read"
    /\ resp' = [resp EXCEPT ![p] =
                   Response(StatusOK, "", ZeroStudent,
                            {students[k] : k \in DOMAIN students}, "")]
    /\ pc' = [pc EXCEPT ![p] = "l_unlock"]
    /\ UNCHANGED <<students, mutex, started>>
    /\ UNCHANGED localVars
    /\ UNCHANGED summaryVars

ListUnlock(p) == Unlock(p, "l_unlock")

\* --------------------------------------------------------------- getStudent
GetParseFrom(p, S) == \E seg \in S : ParseId(p, seg, "g_lock")

GetParse(p) == GetParseFrom(p, PathSegments)

GetLock(p) == Lock(p, "g_lock", "g_read")

GetRead(p) == ReadEntry(p, "g_read", "g_unlock")

\* mutex.Unlock() and the response
GetUnlock(p) ==
    /\ pc[p] = "g_unlock"
    /\ mutex' = Unlocked
    /\ resp' = [resp EXCEPT ![p] =
                   IF exists[p]
                   THEN Response(StatusOK, "", student[p], {}, "")
                   ELSE HttpError("Student not found", StatusNotFound)]
    /\ pc' = [pc EXCEPT ![p] = "done"]
    /\ UNCHANGED <<students, started>>
    /\ UNCHANGED localVars
    /\ UNCHANGED summaryVars

\* ------------------------------------------------------------ updateStudent
\* Atoi of the path id, then json Decode of the body and the validation, for a
\* path segment drawn from S and a body drawn from B
UpdateDecodeFrom(p, S, B) ==
    /\ Accept(p)
    /\ \E seg \in S, b \in B :
         IF ~AtoiOk(seg)
         THEN /\ pc' = [pc EXCEPT ![p] = "done"]
              /\ resp' = [resp EXCEPT ![p] =
                             HttpError("Invalid student ID", StatusBadRequest)]
              /\ UNCHANGED <<id, student>>
         ELSE /\ id' = [id EXCEPT ![p] = Atoi(seg)]
              /\ student' = [student EXCEPT ![p] = b.s]
              /\ IF InvalidStudentData(b.err, b.s)
                 THEN /\ pc' = [pc EXCEPT ![p] = "done"]
                      /\ resp' = [resp EXCEPT ![p] =
                                     HttpError("Invalid student data",
                                               StatusBadRequest)]
                 ELSE /\ pc' = [pc EXCEPT ![p] = "u_lock"]
                      /\ resp' = resp
    /\ UNCHANGED <<students, mutex, exists>>
    /\ UNCHANGED summaryVars

UpdateDecode(p) == UpdateDecodeFrom(p, PathSegments, Bodies)

UpdateLock(p) == Lock(p, "u_lock", "u_apply")

UpdateApply(p) ==
    /\ pc[p] = "u_apply"
    /\ exists' = [exists EXCEPT ![p] = Exists(students, id[p])]
    /\ IF Exists(students, id[p])
       THEN /\ student' = [student EXCEPT ![p] = ForceID(student[p], id[p])]
            /\ students' = Put(students, id[p], ForceID(student[p], id[p]))
            /\ resp' = [resp EXCEPT ![p] =
                           Response(StatusOK, "", ForceID(student[p], id[p]), {}, "")]
       ELSE /\ student' = student
            /\ students' = students
            /\ resp' = [resp EXCEPT ![p] =
                           HttpError("Student not found", StatusNotFound)]
    /\ pc' = [pc EXCEPT ![p] = "u_unlock"]
    /\ UNCHANGED <<mutex, id, started>>
    /\ UNCHANGED summaryVars

UpdateUnlock(p) == Unlock(p, "u_unlock")

\* ------------------------------------------------------------ deleteStudent
DeleteParseFrom(p, S) == \E seg \in S : ParseId(p, seg, "d_lock")

DeleteParse(p) == DeleteParseFrom(p, PathSegments)

DeleteLock(p) == Lock(p, "d_lock", "d_apply")

DeleteApply(p) ==
    /\ pc[p] = "d_apply"
    /\ exists' = [exists EXCEPT ![p] = Exists(students, id[p])]
    /\ IF Exists(students, id[p])
       THEN /\ students' = Remove(students, id[p])
            /\ resp' = [resp EXCEPT ![p] =
                           Response(StatusNoContent, "", ZeroStudent, {}, "")]
       ELSE /\ students' = students
            /\ resp' = [resp EXCEPT ![p] =
                           HttpError("Student not found", StatusNotFound)]
    /\ pc' = [pc EXCEPT ![p] = "d_unlock"]
    /\ UNCHANGED <<mutex, id, student, started>>
    /\ UNCHANGED summaryVars

DeleteUnlock(p) == Unlock(p, "d_unlock")

\* -------------------------------------------------------- getStudentSummary
CallErrors == {"connection refused", "Client.Timeout exceeded"}

CallErrorMessage(v, e) ==
    IF v = Main THEN "Failed to call Ollama API: " \o e
    ELSE "Failed to call Ollama API"

\* faulty accumulation that puts the new text in front
WriteStringInFront(full, line) == ChunkResponse(line) \o full

\* fullResponse.WriteString(chunk.Response)
WriteString(full, line) == full \o ChunkResponse(line)

\* scanner.Err() test and the final json.NewEncoder(w).Encode
Finish(err, full) ==
    IF err
    THEN HttpError("Error reading Ollama response stream", StatusInternalServerError)
    ELSE Response(StatusOK, "", ZeroStudent, {}, full)

SummaryParseFrom(p, S) == \E seg \in S : ParseId(p, seg, "s_lock")

SummaryParse(p) == SummaryParseFrom(p, PathSegments)

SummaryLock(p) == Lock(p, "s_lock", "s_read")

SummaryRead(p) == ReadEntry(p, "s_read", "s_unlock")

\* faulty summary handler that keeps the lock while it goes on to call upstream
SummaryUnlockHolding(p, v) ==
    /\ pc[p] = "s_unlock"
    /\ IF exists[p]
       THEN /\ prompt' = [prompt EXCEPT ![p] = Prompt(v, student[p])]
            /\ pc' = [pc EXCEPT ![p] = "s_call"]
            /\ resp' = resp
       ELSE /\ prompt' = prompt
            /\ pc' = [pc EXCEPT ![p] = "done"]
            /\ resp' = [resp EXCEPT ![p] =
                           HttpError("Student not found", StatusNotFound)]
    /\ id' = [id EXCEPT ![p] = 0]
    /\ student' = [student EXCEPT ![p] = ZeroStudent]
    /\ exists' = [exists EXCEPT ![p] = FALSE]
    /\ UNCHANGED <<students, mutex, started>>
    /\ UNCHANGED <<upStatus, consumed, fullResponse, scanErr>>

\* mutex.Unlock(), the exists test and fmt.Sprintf of the prompt.  The handler
\* never reads id, student and exists again: they are dropped here.
SummaryUnlock(p, v) ==
    /\ pc[p] = "s_unlock"
    /\ mutex' = Unlocked
    /\ IF exists[p]
       THEN /\ prompt' = [prompt EXCEPT ![p] = Prompt(v, student[p])]
            /\ pc' = [pc EXCEPT ![p] = "s_call"]
            /\ resp' = resp
       ELSE /\ prompt' = prompt
            /\ pc' = [pc EXCEPT ![p] = "done"]
            /\ resp' = [resp EXCEPT ![p] =
                           HttpError("Student not found", StatusNotFound)]
    /\ id' = [id EXCEPT ![p] = 0]
    /\ student' = [student EXCEPT ![p] = ZeroStudent]
    /\ exists' = [exists EXCEPT ![p] = FALSE]
    /\ UNCHANGED <<students, started>>
    /\ UNCHANGED <<upStatus, consumed, fullResponse, scanErr>>

\* client.Do(req) / http.Post: the call fails, or the upstream answers with a
\* status; then the test of resp.StatusCode (main.go only) and bufio.NewScanner.
\* The prompt went out with the request and is not read again: it is dropped here.
SummaryCall(p, v) ==
    /\ pc[p] = "s_call"
    /\ \/ \E e \in CallErrors :
            /\ resp' = [resp EXCEPT ![p] =
                           HttpError(CallErrorMessage(v, e),
                                     StatusInternalServerError)]
            /\ pc' = [pc EXCEPT ![p] = "done"]
            /\ upStatus' = upStatus
       \/ \E st \in UpstreamStatuses :
            /\ upStatus' = [upStatus EXCEPT ![p] = st]
            /\ IF ChecksStatus(v) /\ st # StatusOK
               THEN /\ resp' = [resp EXCEPT ![p] =
                                   HttpError("Ollama returned status " \o Itoa(st),
                                             StatusInternalServerError)]
                    /\ pc' = [pc EXCEPT ![p] = "done"]
               ELSE /\ resp' = resp
                    /\ pc' = [pc EXCEPT ![p] = "s_scan"]
    /\ prompt' = [prompt EXCEPT ![p] = ""]
    /\ UNCHANGED <<students, mutex, started>>
    /\ UNCHANGED localVars
    /\ UNCHANGED <<consumed, fullResponse, scanErr>>

\* One evaluation of `for scanner.Scan()` and, when it yields a token, the loop
\* body; when the loop is left (Scan returned false, or break), the scanner.Err()
\* test and the response.  The body stream yields a next line or ends.  A read
\* error of the body is kept in the scanner while it still hands out the lines it
\* has buffered, so scanner.Err() can be non-nil after either way of leaving the
\* loop; nothing reads it before, so it is drawn when the loop is left.
\* The lines of the stream are drawn from L.
SummaryScanFrom(p, L) ==
    /\ pc[p] = "s_scan"
    /\ \/ \E line \in L :
            /\ Len(consumed[p]) < MaxLines
            /\ consumed' = [consumed EXCEPT ![p] = Append(@, line)]
            /\ IF ~UnmarshalOk(line)
               THEN /\ resp' = [resp EXCEPT ![p] =
                                   HttpError("Failed to parse Ollama response chunk",
                                             StatusInternalServerError)]
                    /\ pc' = [pc EXCEPT ![p] = "done"]
                    /\ UNCHANGED <<fullResponse, scanErr>>
               ELSE /\ fullResponse' = [fullResponse EXCEPT ![p] =
                                           WriteString(@, line)]
                    /\ IF ChunkDone(line)
                       THEN \E e \in BOOLEAN :
                              /\ scanErr' = [scanErr EXCEPT ![p] = e]
                              /\ resp' = [resp EXCEPT ![p] =
                                    Finish(e, WriteString(fullResponse[p], line))]
                              /\ pc' = [pc EXCEPT ![p] = "done"]
                       ELSE UNCHANGED <<scanErr, resp, pc>>
       \/ \E e \in BOOLEAN :
            /\ scanErr' = [scanErr EXCEPT ![p] = e]
            /\ resp' = [resp EXCEPT ![p] = Finish(e, fullResponse[p])]
            /\ pc' = [pc EXCEPT ![p] = "done"]
            /\ UNCHANGED <<consumed, fullResponse>>
    /\ UNCHANGED <<students, mutex, started>>
    /\ UNCHANGED localVars
    /\ UNCHANGED <<prompt, upStatus>>

SummaryScan(p) == SummaryScanFrom(p, Lines)

\* ----------------------------------------------------------- specification
\* the steps of each handler after it has read its request
CreateSteps(p) ==
    \/ CreateLock(p) \/ CreateAssign(p) \/ CreateInsert(p) \/ CreateUnlock(p)

ListSteps(p) == ListStart(p) \/ ListLock(p) \/ ListRead(p) \/ ListUnlock(p)

GetSteps(p) == GetLock(p) \/ GetRead(p) \/ GetUnlock(p)

UpdateSteps(p) == UpdateLock(p) \/ UpdateApply(p) \/ UpdateUnlock(p)

DeleteSteps(p) == DeleteLock(p) \/ DeleteApply(p) \/ DeleteUnlock(p)

SummaryStoreSteps(p, v) == SummaryLock(p) \/ SummaryRead(p) \/ SummaryUnlock(p, v)

SummarySteps(p, v) ==
    \/ SummaryParse(p) \/ SummaryStoreSteps(p, v)
    \/ SummaryCall(p, v) \/ SummaryScan(p)

\* the server of main.go under every kind of request
Next ==
    \E p \in Procs :
        \/ Return(p)
        \/ CreateDecode(p) \/ CreateSteps(p)
        \/ ListSteps(p)
        \/ GetParse(p) \/ GetSteps(p)
        \/ UpdateDecode(p) \/ UpdateSteps(p)
        \/ DeleteParse(p) \/ DeleteSteps(p)
        \/ SummarySteps(p, Main)

Spec == Init /\ [][Next]_vars

\* the server of main.go under every kind of request, each kind with one request
\* per way through its handler: the id of the first student or no number, a valid
\* body, an undecodable one or one with age 0, a stream of chunks or a bad line
OnePath == {"1", "abc"}
OneBody == {b \in Bodies : b.err \/ b.s = Student(0, "ann", 20, "a@x.io")
                                  \/ b.s = Student(0, "ann", 0, "a@x.io")}
OneStream == {LineHello, LineWorld, LineNotJson}

NextLocking ==
    \E p \in Procs :
        \/ Return(p)
        \/ CreateDecodeFrom(p, OneBody) \/ CreateSteps(p)
        \/ ListSteps(p)
        \/ GetParseFrom(p, OnePath) \/ GetSteps(p)
        \/ UpdateDecodeFrom(p, OnePath, OneBody) \/ UpdateSteps(p)
        \/ DeleteParseFrom(p, OnePath) \/ DeleteSteps(p)
        \/ SummaryParseFrom(p, OnePath) \/ SummaryStoreSteps(p, Main)
        \/ SummaryCall(p, Main) \/ SummaryScanFrom(p, OneStream)

SpecLocking == Init /\ [][NextLocking]_vars

\* the record store under create/list/get/update/delete requests
NextStore ==
    \E p \in Procs :
        \/ Return(p)
        \/ CreateDecode(p) \/ CreateSteps(p)
        \/ ListSteps(p)
        \/ GetParse(p) \/ GetSteps(p)
        \/ UpdateDecode(p) \/ UpdateSteps(p)
        \/ DeleteParse(p) \/ DeleteSteps(p)

SpecStore == Init /\ [][NextStore]_vars

\* valid create requests only
ValidBodies == {b \in Bodies : ~InvalidStudentData(b.err, b.s)}

NextCreate ==
    \E p \in Procs :
        \/ CreateDecodeFrom(p, ValidBodies) \/ CreateSteps(p)

SpecCreate == Init /\ [][NextCreate]_vars

\* summary requests over a store filled by create requests
NextSummary ==
    \E p \in Procs :
        \/ Return(p)
        \/ CreateDecode(p) \/ CreateSteps(p)
        \/ SummarySteps(p, Main)

SpecSummary == Init /\ [][NextSummary]_vars

\* the same workload on the server of src/unnamed/part_000
NextSummaryPart000 ==
    \E p \in Procs :
        \/ Return(p)
        \/ CreateDecodeOf(p, Part000, Bodies) \/ CreateSteps(p)
        \/ SummarySteps(p, Part000)

SpecSummaryPart000 == Init /\ [][NextSummaryPart000]_vars

\* the record store under create/list/get/update requests: nothing is deleted
NextNoDelete ==
    \E p \in Procs :
        \/ Return(p)
        \/ CreateDecode(p) \/ CreateSteps(p)
        \/ ListSteps(p)
        \/ GetParse(p) \/ GetSteps(p)
        \/ UpdateDecode(p) \/ UpdateSteps(p)

SpecNoDelete == Init /\ [][NextNoDelete]_vars

\* one Create of a valid student first, then Updates and Deletes of student 1
\* that race with it and with each other
RacePath == {"1"}

NextRace ==
    \E p \in Procs :
        \/ (started = 0 /\ CreateDecodeFrom(p, ValidBodies)) \/ CreateSteps(p)
        \/ (started > 0 /\ UpdateDecodeFrom(p, RacePath, ValidBodies))
        \/ UpdateSteps(p)
        \/ (started > 0 /\ DeleteParseFrom(p, RacePath)) \/ DeleteSteps(p)

SpecRace == Init /\ [][NextRace]_vars

\* the record store under one request per way through each of its handlers, with
\* the scheduling the Go runtime gives: a goroutine that can run does run, and a
\* goroutine blocked in mutex.Lock() gets the mutex if it is released again and
\* again (sync.Mutex hands the lock to a starving waiter)
NextStoreOne ==
    \E p \in Procs :
        \/ Return(p)
        \/ CreateDecodeFrom(p, OneBody) \/ CreateSteps(p)
        \/ ListSteps(p)
        \/ GetParseFrom(p, OnePath) \/ GetSteps(p)
        \/ UpdateDecodeFrom(p, OnePath, OneBody) \/ UpdateSteps(p)
        \/ DeleteParseFrom(p, OnePath) \/ DeleteSteps(p)

LockSteps(p) ==
    CreateLock(p) \/ ListLock(p) \/ GetLock(p) \/ UpdateLock(p) \/ DeleteLock(p)

RunSteps(p) ==
    \/ Return(p)
    \/ CreateAssign(p) \/ CreateInsert(p) \/ CreateUnlock(p)
    \/ ListRead(p) \/ ListUnlock(p)
    \/ GetRead(p) \/ GetUnlock(p)
    \/ UpdateApply(p) \/ UpdateUnlock(p)
    \/ DeleteApply(p) \/ DeleteUnlock(p)

FairStore ==
    /\ Init /\ [][NextStoreOne]_vars
    /\ \A p \in Procs : WF_vars(RunSteps(p)) /\ SF_vars(LockSteps(p))

\* ==================================================================== claims
Size(tbl) == Cardinality(DOMAIN tbl)

\* labels at which a goroutine is between mutex.Lock() and mutex.Unlock()
CriticalLabels ==
    {"c_assign", "c_insert", "c_unlock", "l_read", "l_unlock", "g_read", "g_unlock",
     "u_apply", "u_unlock", "d_apply", "d_unlock", "s_read", "s_unlock"}

\* labels at which a goroutine is about to call mutex.Lock()
LockLabels == {"c_lock", "l_lock", "g_lock", "u_lock", "d_lock", "s_lock"}

\* the line is a chunk with done == true / is no chunk at all, read off its text
IsTerminalLine(line) == line = "{\"response\":\"world.\",\"done\":true}"
IsMalformedLine(line) == line \in {"not-json", ""}

HasTerminal(c) == \E i \in 1 .. Len(c) : IsTerminalLine(c[i])

RECURSIVE ConcatText(_)
ConcatText(c) == IF c = << >> THEN "" ELSE ChunkResponse(Head(c)) \o ConcatText(Tail(c))

\* ---------------------------------------------------------------------- C1
\* C1 (as claimed): a Create that takes effect is assigned an id that no stored
\* entity has, and when it returns exactly one stored entity carries that id.
\* createStudent takes len(students)+1, which is the key of a stored entity once a
\* lower key has been deleted: the Create then overwrites that entity.
C1_CreateIdUnique ==
    \A p \in Procs :
        /\ pc[p] = "c_insert" => student[p].ID \notin DOMAIN students
        /\ pc[p] = "c_unlock" =>
              Cardinality({k \in DOMAIN students :
                              students[k].ID = resp[p].student.ID}) = 1

\* ---------------------------------------------------------------------- C2
\* C2 (as claimed): in every step, a stored entity leaves the store only by a
\* successful Delete of its key, changes only by a successful Update of its key,
\* and a successful Create grows the population by exactly one.
\* Fails for the reason of C1: a Create can replace a stored entity.
C2_FrameOfStoreOperations ==
    [][ /\ \A k \in DOMAIN students :
             /\ k \notin DOMAIN students' =>
                   \E p \in Procs : pc[p] = "d_apply" /\ id[p] = k
                                    /\ pc'[p] = "d_unlock"
             /\ (k \in DOMAIN students' /\ students'[k] # students[k]) =>
                   \E p \in Procs : pc[p] = "u_apply" /\ id[p] = k
                                    /\ pc'[p] = "u_unlock"
        /\ \A p \in Procs :
             (pc[p] = "c_insert" /\ pc'[p] = "c_unlock") =>
                 Size(students') = Size(students) + 1 ]_vars

\* ---------------------------------------------------------------------- C3
\* C3: from the empty store, under valid Create requests only and any
\* interleaving of them, no Create is rejected, the population equals the number
\* of Creates that took effect, the stored ids are 1..n, and the k-th Create to
\* take effect answers 201 with id k and is stored under k; so the returned ids
\* are pairwise distinct and the final population is the number of requests.
CreatesInEffect ==
    started - Cardinality({p \in Procs : pc[p] \in {"c_lock", "c_assign", "c_insert"}})

C3_ConcurrentCreatesDistinct ==
    /\ Size(students) = CreatesInEffect
    /\ DOMAIN students = 1 .. CreatesInEffect
    /\ \A p \in Procs :
         pc[p] # "idle" => pc[p] \in {"c_lock", "c_assign", "c_insert", "c_unlock"}
    /\ \A p \in Procs :
         pc[p] = "c_unlock" =>
            /\ resp[p].status = StatusCreated
            /\ resp[p].student.ID = CreatesInEffect
            /\ students[resp[p].student.ID] = resp[p].student

\* the last of MaxOps creates is about to return its entity while the others have
\* returned: the population is MaxOps
C3_Witness ==
    /\ started = MaxOps
    /\ Size(students) = MaxOps
    /\ \E p \in Procs : pc[p] = "c_unlock" /\ resp[p].student.ID = MaxOps
    /\ \A p \in Procs : pc[p] \in {"idle", "c_unlock"}

\* ---------------------------------------------------------------------- C4
\* C4: every stored entity has a positive id equal to its key, a non-empty name
\* and email and a positive age, whatever id the payload of an Update carried.
C4_StoredEntitiesWellFormed ==
    \A k \in DOMAIN students :
        /\ k > 0
        /\ students[k].ID = k
        /\ students[k].Name # ""
        /\ students[k].Email # ""
        /\ students[k].Age > 0

\* an Update of key 1 has stored the body of bob, whose payload id is 2
C4_Witness ==
    \E p \in Procs :
        /\ pc[p] = "u_unlock" /\ id[p] = 1
        /\ resp[p].status = StatusOK
        /\ students[1].Name = "bob" /\ students[1].ID = 1

\* ---------------------------------------------------------------------- C5
\* C5: at most one goroutine is between Lock and Unlock, and a goroutine that is
\* there (in particular one about to read or write the student table) holds the mutex.
C5_MutualExclusion ==
    /\ \A p, q \in Procs :
         (pc[p] \in CriticalLabels /\ pc[q] \in CriticalLabels) => p = q
    /\ \A p \in Procs : pc[p] \in CriticalLabels => mutex = p

\* one goroutine is about to write the table while another waits for the lock
C5_Witness ==
    \E p, q \in Procs :
        /\ pc[p] \in {"c_insert", "u_apply", "d_apply"}
        /\ pc[q] \in LockLabels

\* ---------------------------------------------------------------------- C6
\* C6 (as claimed): a summary request whose upstream call returned 200 and whose
\* stream ended before a chunk with done == true fails with a 5xx.
\* getStudentSummary only tests scanner.Err(): a stream that ends cleanly without
\* a terminal chunk is answered 200 with the text read so far.
C6_IncompleteStreamFails ==
    \A p \in Procs :
        (pc[p] = "done" /\ upStatus[p] = StatusOK /\ ~HasTerminal(consumed[p]))
            => resp[p].status = StatusInternalServerError

\* ---------------------------------------------------------------------- C7
\* C7: once a chunk with done == true has been read, it is the last line read and
\* the request is finished; a summary that is returned is the concatenation of
\* the texts of the lines read, in order; and it is returned unless the scanner
\* reports a read error.
C7_StopsAtFirstDone ==
    \A p \in Procs :
        HasTerminal(consumed[p]) =>
            /\ \A i \in 1 .. Len(consumed[p]) :
                   IsTerminalLine(consumed[p][i]) <=> i = Len(consumed[p])
            /\ pc[p] = "done"
            /\ resp[p].status = StatusOK => resp[p].summary = ConcatText(consumed[p])
            /\ ~scanErr[p] => resp[p].status = StatusOK

C7_Witness ==
    \E p \in Procs :
        /\ pc[p] = "done"
        /\ consumed[p] = << LineHello, LineWorld >>
        /\ resp[p].status = StatusOK
        /\ resp[p].summary = "Hello world."

\* ---------------------------------------------------------------------- C8
\* C8 (as claimed): when the upstream answers with a status other than 200, the
\* request ends with the 500 "Ollama returned status <code>" and no line is read.
\* The server of src/unnamed/part_000 never looks at resp.StatusCode.
C8_NonSuccessStatusFails ==
    \A p \in Procs :
        (pc[p] = "done" /\ upStatus[p] \notin {0, StatusOK}) =>
            /\ resp[p] = HttpError("Ollama returned status " \o Itoa(upStatus[p]),
                                   StatusInternalServerError)
            /\ consumed[p] = << >>

\* ---------------------------------------------------------------------- C9
\* C9: a line that is no chunk is the last line read; the request is finished
\* with the 500 "Failed to parse Ollama response chunk" and carries no summary,
\* whatever text the lines before it had accumulated.
C9_MalformedLineAborts ==
    \A p \in Procs :
        \A i \in 1 .. Len(consumed[p]) :
            IsMalformedLine(consumed[p][i]) =>
                /\ i = Len(consumed[p])
                /\ pc[p] = "done"
                /\ resp[p] = HttpError("Failed to parse Ollama response chunk",
                                       StatusInternalServerError)

\* two chunks were accumulated before the bad line
C9_Witness ==
    \E p \in Procs :
        /\ pc[p] = "done"
        /\ consumed[p] = << LineHello, LineHello, LineNotJson >>
        /\ fullResponse[p] = "Hello Hello "
        /\ resp[p].status = StatusInternalServerError
        /\ resp[p].summary = ""

\* --------------------------------------------------------------------- C10
\* C10: a Create or Update whose decoded candidate has an empty name, an empty
\* email or an age <= 0 is finished at once with the 400 "Invalid student data",
\* and the step that rejects it leaves the student table as it was.
InvalidCandidate(s) == s.Name = "" \/ s.Email = "" \/ s.Age = 0 \/ s.Age < 0

C10_Rejected ==
    \A p \in Procs :
        (student[p] # ZeroStudent /\ InvalidCandidate(student[p])) =>
            /\ pc[p] = "done"
            /\ resp[p] = HttpError("Invalid student data", StatusBadRequest)

C10_InvalidCandidateRejected ==
    /\ []C10_Rejected
    /\ [][ \A p \in Procs :
             (pc[p] = "idle" /\ pc'[p] = "done") => students' = students ]_vars

\* a Create with age 0 and an Update with an empty name, both rejected, over a
\* store that holds an entity
C10_Witness ==
    /\ students # << >>
    /\ \E p, q \in Procs :
         /\ pc[p] = "done" /\ id[p] = 0
         /\ student[p].Name = "ann" /\ student[p].Age = 0
         /\ resp[p].status = StatusBadRequest
         /\ pc[q] = "done" /\ id[q] = 1 /\ student[q].Name = ""
         /\ resp[q].status = StatusBadRequest

\* --------------------------------------------------------------------- C11
\* C11: an Update of a stored id with a valid candidate v answers 200 and leaves
\* under that id the entity with the name, age and email of v and the id of the
\* path, whatever id v carried, and returns that entity; a Get reads the entity
\* the store holds under its id at that moment and returns it unchanged.  So a
\* Get that follows the Update with no write in between returns v with the path id.
C11_UpdateThenGet ==
    [][ \A p \in Procs :
          /\ (pc[p] = "u_apply" /\ pc'[p] = "u_unlock" /\ id[p] \in DOMAIN students) =>
                /\ resp'[p].status = StatusOK
                /\ id[p] \in DOMAIN students'
                /\ students'[id[p]] =
                      Student(id[p], student[p].Name, student[p].Age, student[p].Email)
                /\ resp'[p].student = students'[id[p]]
          /\ (pc[p] = "g_read" /\ pc'[p] = "g_unlock" /\ id[p] \in DOMAIN students) =>
                /\ exists'[p]
                /\ student'[p] = students[id[p]]
                /\ students' = students
          /\ (pc[p] = "g_unlock" /\ pc'[p] = "done" /\ exists[p]) =>
                /\ resp'[p] = Response(StatusOK, "", student[p], {}, "")
                /\ students' = students ]_vars

\* ann was created as 1 and read by a Get; an Update of 1 with the body of bob
\* (payload id 2) followed, and the Get after it returned bob under id 1
C11_Witness ==
    /\ started = 4
    /\ DOMAIN students = {1}
    /\ students[1] = Student(1, "bob", 20, "b@x.io")
    /\ \E p, q \in Procs :
         /\ pc[p] = "done" /\ id[p] = 1
         /\ resp[p] = Response(StatusOK, "", Student(1, "ann", 20, "a@x.io"), {}, "")
         /\ pc[q] = "done" /\ id[q] = 1
         /\ resp[q] = Response(StatusOK, "", Student(1, "bob", 20, "b@x.io"), {}, "")

\* --------------------------------------------------------------------- C12
\* C12: a Delete of a stored id answers 204 and leaves the id absent; and on an id
\* that is absent a Get, a Delete and an Update with a valid candidate each answer
\* 404 "Student not found".  So after a successful Delete, and until a Create puts
\* the id back, Get, a second Delete and Update of that id fail with NotFound.
C12_DeleteThenNotFound ==
    [][ \A p \in Procs :
          /\ (pc[p] = "d_apply" /\ pc'[p] = "d_unlock" /\ id[p] \in DOMAIN students) =>
                /\ resp'[p].status = StatusNoContent
                /\ id[p] \notin DOMAIN students'
          /\ (pc[p] = "d_apply" /\ pc'[p] = "d_unlock" /\ id[p] \notin DOMAIN students) =>
                resp'[p] = HttpError("Student not found", StatusNotFound)
          /\ (pc[p] = "u_apply" /\ pc'[p] = "u_unlock" /\ id[p] \notin DOMAIN students) =>
                resp'[p] = HttpError("Student not found", StatusNotFound)
          /\ (pc[p] = "g_read" /\ pc'[p] = "g_unlock" /\ id[p] \notin DOMAIN students) =>
                ~exists'[p]
          /\ (pc[p] = "g_unlock" /\ pc'[p] = "done" /\ ~exists[p]) =>
                resp'[p] = HttpError("Student not found", StatusNotFound) ]_vars

\* student 1 was created and read by a Get, then deleted, and the Get after the
\* Delete answered 404
C12_Witness ==
    /\ started = 4
    /\ students = << >>
    /\ \E p, q \in Procs :
         /\ pc[p] = "done" /\ id[p] = 1 /\ resp[p].status = StatusOK
         /\ resp[p].student.ID = 1
         /\ pc[q] = "done" /\ id[q] = 1
         /\ resp[q] = HttpError("Student not found", StatusNotFound)

\* --------------------------------------------------------------------- C13
\* C13: whatever the store holds, a Create that takes effect answers 201 with an
\* entity e that the store then holds under e.ID, equal to e in all four fields;
\* a Get that holds the lock has read the entity stored under its id, returns it
\* as read, and no step of a Get changes the store.  So a Get of e.ID that follows
\* the Create with no write in between returns e, and so does a repeated Get.
C13_GetHoldsStoredEntity ==
    \A p \in Procs :
        (pc[p] = "g_unlock" /\ exists[p]) =>
            /\ id[p] \in DOMAIN students
            /\ student[p] = students[id[p]]

C13_CreateThenGet ==
    /\ []C13_GetHoldsStoredEntity
    /\ [][ \A p \in Procs :
             /\ (pc[p] = "c_insert" /\ pc'[p] = "c_unlock") =>
                   /\ resp'[p].status = StatusCreated
                   /\ resp'[p].student.ID \in DOMAIN students'
                   /\ students'[resp'[p].student.ID] = resp'[p].student
                   /\ resp'[p].student =
                         Student(Size(students) + 1, student[p].Name,
                                 student[p].Age, student[p].Email)
             /\ (pc[p] \in {"g_lock", "g_read", "g_unlock"} /\ pc'[p] # pc[p]) =>
                   students' = students
             /\ (pc[p] = "g_unlock" /\ pc'[p] = "done" /\ exists[p]) =>
                   resp'[p].student = student[p] ]_vars

\* the second Create returned bob under id 2, and two Gets of 2 after it both
\* returned that entity, which the store still holds
C13_Witness ==
    /\ started = 4
    /\ DOMAIN students = {1, 2}
    /\ students[2] = Student(2, "bob", 20, "b@x.io")
    /\ \E p, q \in Procs :
         /\ p # q
         /\ pc[p] = "done" /\ id[p] = 2
         /\ resp[p] = Response(StatusOK, "", students[2], {}, "")
         /\ pc[q] = "done" /\ id[q] = 2
         /\ resp[q] = Response(StatusOK, "", students[2], {}, "")

\* --------------------------------------------------------------------- C14
\* C14: a Get, an Update with a valid candidate and a Delete whose id is not in
\* the store each answer 404 and leave the store as it was; an Update never adds
\* a key: the only step after which the store has a key it did not have is the
\* insert of a Create.
C14_AbsentIdLeavesStore ==
    [][ /\ \A p \in Procs :
             /\ (pc[p] \in {"u_apply", "d_apply"} /\ pc'[p] # pc[p]
                    /\ id[p] \notin DOMAIN students) =>
                   /\ resp'[p].status = StatusNotFound
                   /\ students' = students
             /\ (pc[p] = "g_read" /\ pc'[p] = "g_unlock"
                    /\ id[p] \notin DOMAIN students) =>
                   /\ ~exists'[p]
                   /\ students' = students
             /\ (pc[p] = "g_unlock" /\ pc'[p] = "done" /\ ~exists[p]) =>
                   /\ resp'[p].status = StatusNotFound
                   /\ students' = students
             /\ (pc[p] = "u_apply" /\ pc'[p] = "u_unlock") =>
                   DOMAIN students' = DOMAIN students
        /\ (DOMAIN students' \ DOMAIN students # {}) =>
              \E p \in Procs : pc[p] = "c_insert" /\ pc'[p] = "c_unlock" ]_vars

\* over a store that holds student 1 only, an Update of 2 with a valid candidate
\* has answered 404 while a Delete of 2 waits for the lock
C14_Witness ==
    /\ DOMAIN students = {1}
    /\ \E p, q \in Procs :
         /\ pc[p] = "u_unlock" /\ id[p] = 2
         /\ student[p] = Student(0, "ann", 20, "a@x.io")
         /\ resp[p] = HttpError("Student not found", StatusNotFound)
         /\ pc[q] = "d_lock" /\ id[q] = 2

\* --------------------------------------------------------------------- C15
\* C15: the id a Create is about to store under is the population size plus one,
\* whatever keys the store holds; so identifier reuse is reachable: after a Delete
\* of a lower key, a Create is assigned an id under which the store holds another
\* entity that an earlier Create had put there (the witness).
C15_IdIsPopulationPlusOne ==
    \A p \in Procs :
        pc[p] = "c_insert" => student[p].ID = Size(students) + 1

\* after the Delete of 1 the store holds only bob, created as 2; the next Create,
\* of ann, is about to store under the id 2 again
C15_Witness ==
    /\ DOMAIN students = {2}
    /\ students[2] = Student(2, "bob", 20, "b@x.io")
    /\ \E p \in Procs :
         /\ pc[p] = "c_insert"
         /\ student[p] = Student(2, "ann", 20, "a@x.io")

\* --------------------------------------------------------------------- C16
\* C16: when Updates and Deletes of the stored id 1 race, each of them acts on the
\* store as the one before it in lock order left it: an Update answers 200 and
\* stores its candidate if 1 is present when it has the lock and 404 if not, a
\* Delete answers 204 and removes 1 if present and 404 if not.  A Delete that has
\* acted leaves 1 absent, and 1 stays absent whatever Update comes later.
CreateInFlight == \E p \in Procs : pc[p] \in {"c_lock", "c_assign", "c_insert", "c_unlock"}

C16_Serialized ==
    \A p \in Procs :
        /\ pc[p] = "d_unlock" => 1 \notin DOMAIN students
        /\ (pc[p] = "u_unlock" /\ resp[p].status = StatusOK) =>
              (1 \in DOMAIN students /\ students[1] = resp[p].student)
        /\ (pc[p] = "u_unlock" /\ resp[p].status # StatusOK) =>
              (1 \notin DOMAIN students /\ resp[p].status = StatusNotFound)

C16_UpdateDeleteSerialized ==
    /\ []C16_Serialized
    /\ [][ /\ \A p \in Procs :
                /\ (pc[p] = "u_apply" /\ pc'[p] = "u_unlock") =>
                      (resp'[p].status = StatusOK <=> 1 \in DOMAIN students)
                /\ (pc[p] = "d_apply" /\ pc'[p] = "d_unlock") =>
                      /\ resp'[p].status = StatusNoContent <=> 1 \in DOMAIN students
                      /\ resp'[p].status = StatusNotFound <=> 1 \notin DOMAIN students
           /\ (started > 0 /\ ~CreateInFlight /\ 1 \notin DOMAIN students) =>
                 1 \notin DOMAIN students' ]_vars

\* the Delete took the lock first and has removed student 1 while the Update of 1
\* waits for the lock
C16_Witness ==
    \E p, q \in Procs :
        /\ pc[p] = "d_unlock" /\ id[p] = 1 /\ resp[p].status = StatusNoContent
        /\ pc[q] = "u_lock" /\ id[q] = 1
        /\ students = << >>

\* --------------------------------------------------------------------- C17
\* C17: a summary request holds the mutex only at its read of the entity: it does
\* not hold it when the upstream call is issued nor while the stream is consumed,
\* so the other handlers can take the lock and finish meanwhile (the witness).
\* Its prompt is built from the entity as it was read under the lock, and no step
\* of another request changes the prompt afterwards.
C17_SummaryLockFree ==
    \A p \in Procs :
        /\ pc[p] \in {"s_lock", "s_call", "s_scan"} => mutex # p
        /\ pc[p] \in {"s_read", "s_unlock"} => mutex = p
        /\ (pc[p] = "s_unlock" /\ exists[p]) => student[p] = students[id[p]]

C17_SummaryReleasesBeforeCall ==
    /\ []C17_SummaryLockFree
    /\ [][ \A p \in Procs :
             /\ (pc[p] = "s_unlock" /\ pc'[p] = "s_call") =>
                   /\ mutex' = Unlocked
                   /\ prompt'[p] =
                         "Summarize this student profile: Name: "
                            \o students[id[p]].Name \o ", Age: "
                            \o Itoa(students[id[p]].Age) \o ", Email: "
                            \o students[id[p]].Email
             /\ (pc[p] = "s_call" /\ pc'[p] = "s_call") => prompt'[p] = prompt[p]
             /\ (pc[p] \in {"s_call", "s_scan"} /\ pc'[p] # "idle") =>
                   mutex' # p ]_vars

\* a summary of student 1 has its prompt and is at the upstream call while a
\* Delete of 1 has taken the lock and removed the student
C17_Witness ==
    \E p, q \in Procs :
        /\ pc[p] = "s_call"
        /\ prompt[p] = "Summarize this student profile: Name: ann, Age: 20, Email: a@x.io"
        /\ pc[q] = "d_unlock" /\ id[q] = 1 /\ resp[q].status = StatusNoContent
        /\ mutex = q
        /\ students = << >>

\* --------------------------------------------------------------------- C18
\* C18: the mutex is held only by a request that is between Lock and Unlock: a
\* request that has returned, on the NotFound paths of Update and Delete too,
\* holds nothing.  Under fair scheduling a request that waits for the lock gets
\* it and every request that was begun returns, which by the first part means
\* that it has released the lock.
C18_HolderInCriticalSection ==
    \A p \in Procs : mutex = p <=> pc[p] \in CriticalLabels

C18_LockReleasedAndAcquired ==
    /\ []C18_HolderInCriticalSection
    /\ \A p \in Procs :
         /\ (pc[p] \in LockLabels) ~> (mutex = p)
         /\ (pc[p] # "idle") ~> (pc[p] = "idle")

\* an Update of an id that is not stored has answered 404 and still holds the
\* lock while a Delete waits for it
C18_Witness ==
    \E p, q \in Procs :
        /\ pc[p] = "u_unlock" /\ mutex = p
        /\ resp[p] = HttpError("Student not found", StatusNotFound)
        /\ pc[q] = "d_lock"

\* --------------------------------------------------------------------- C19
\* C19: as long as nothing is deleted, however Creates, Updates, Gets and Lists
\* interleave, the stored ids are exactly 1..n for the n Creates that have taken
\* effect: the Create that takes the lock k-th is assigned k, stores under k and
\* returns k, and no other step changes the set of stored ids.
C19_IdsContiguous ==
    /\ DOMAIN students = 1 .. Size(students)
    /\ \A p \in Procs :
         /\ pc[p] = "c_insert" => student[p].ID = Size(students) + 1
         /\ pc[p] = "c_unlock" => resp[p].student.ID = Size(students)

C19_IdsAreOneToN ==
    /\ []C19_IdsContiguous
    /\ [][ IF \E p \in Procs : pc[p] = "c_insert" /\ pc'[p] = "c_unlock"
           THEN DOMAIN students' = DOMAIN students \cup {Size(students) + 1}
           ELSE DOMAIN students' = DOMAIN students ]_vars

\* two Creates and an Update of 1 have taken effect and a third Create waits for
\* the lock: the stored ids are 1 and 2
C19_Witness ==
    /\ DOMAIN students = {1, 2}
    /\ \E p, q \in Procs :
         /\ pc[p] = "u_unlock" /\ id[p] = 1 /\ resp[p].status = StatusOK
         /\ pc[q] = "c_lock"

\* --------------------------------------------------------------------- C20
\* C20: an Update whose candidate has an empty name, an empty email or an age <= 0
\* is answered 400 "Invalid student data" in the step that decodes it, without
\* the lock and without a look at the store, whether its id is stored or not; an
\* Update that waits for or holds the lock has a valid candidate, and the 404 of
\* an Update means a valid candidate and an absent id.
C20_LockedUpdateIsValid ==
    \A p \in Procs :
        /\ pc[p] \in {"u_lock", "u_apply", "u_unlock"} =>
              (student[p].Name # "" /\ student[p].Email # "" /\ student[p].Age > 0)
        /\ (pc[p] = "u_unlock" /\ resp[p].status = StatusNotFound) =>
              id[p] \notin DOMAIN students

C20_UpdateValidatesFirst ==
    /\ []C20_LockedUpdateIsValid
    /\ [][ \A p \in Procs :
             (/\ pc[p] = "idle" /\ pc'[p] # "idle" /\ id'[p] # 0
              /\ student'[p] # ZeroStudent /\ InvalidCandidate(student'[p])) =>
                 /\ pc'[p] = "done"
                 /\ resp'[p] = HttpError("Invalid student data", StatusBadRequest)
                 /\ mutex' = mutex
                 /\ students' = students ]_vars

\* over a store that holds student 1 only, an Update of 1 and an Update of 2 with
\* invalid candidates were both answered 400
C20_Witness ==
    /\ DOMAIN students = {1}
    /\ \E p, q \in Procs :
         /\ pc[p] = "done" /\ id[p] = 1 /\ student[p].Email = "" /\ student[p].Name = "ann"
         /\ resp[p] = HttpError("Invalid student data", StatusBadRequest)
         /\ pc[q] = "done" /\ id[q] = 2 /\ student[q].Age = -1
         /\ resp[q] = HttpError("Invalid student data", StatusBadRequest)

====
